---- MODULE Spec2Model ----
(***************************************************************************)
(* A model of the thread pool of src/inc/threadpool.h and                  *)
(* src/src/threadpool.cpp: the pool (task queue, worker registry, scaling  *)
(* and shutdown), its worker threads running ThreadPool::threadHandler,    *)
(* the tasks and the Result handles with their Semaphore.                  *)
(*                                                                         *)
(* Threads of the model: the user threads (configuration, start,           *)
(* submitTask, Result::get, the destructor) and one worker per Thread      *)
(* object.  Every critical section of taskQueMtx_ that ends by releasing   *)
(* the mutex or by waiting on a condition variable is one action; the      *)
(* statements outside the mutex (isPoolRunning_ = false, Task::exec,       *)
(* threadIdelSize_++) are actions of their own.                            *)
(*                                                                         *)
(* Use of the pool that the model covers: the setters at any time, start   *)
(* once, submitTask between start and the destructor, get at most once     *)
(* per handle.  The Result that submitTask returns is constructed in the   *)
(* caller's object.                                                        *)
(*                                                                         *)
(* Spec, FairSpec and ShutdownSpec are the first pool of a process with    *)
(* its Results kept alive and in place.  StartSpec is the configuration,   *)
(* start and shutdown of a pool of a process that may have constructed     *)
(* Thread objects before.  HandleSpec adds the move construction and the   *)
(* destruction of Results by their owners to a pool in its default         *)
(* configuration.                                                          *)
(***************************************************************************)
EXTENDS Integers, Sequences, FiniteSets, TLC

\* ---------------------------------------------------------------- bounds
MaxTasks == 2
MaxInit == 2
MaxQueBound == 1
MaxCeil == 2
MaxPriorIds == 1
MaxMoves == 1

\* ------------------------------------------------------ program constants
TASK_MAX_THRESHOLD == 2147483647
THREAD_MAX_THRESHHOLD == 1024
THREAD_IDLE_TIME == 2

MODE_FIXED == "MODE_FIXED"
MODE_CACHED == "MODE_CACHED"
PoolMode == {MODE_FIXED, MODE_CACHED}

Tasks == 1..MaxTasks
\* Result objects: the Result of task t that submitTask constructs is handle t,
\* the Result move-constructed from handle h is handle h + MaxTasks.
Handles == 1..(MaxTasks * (MaxMoves + 1))
\* Thread ids: start creates at most MaxInit, each submitTask at most one.
Workers == 0..(MaxInit + MaxTasks - 1)
NoTask == 0
nullptr == 0
\* taskQueMtx_ is held by no thread.
NoOwner == -1

VARIABLES
    poolMode_, taskQueMaxThreshHold_, threadSizeThreshHold_,   \* configuration
    isPoolRunning_, initThreadSize_, curThreadSize_, threadIdelSize_,
    taskQue_, taskSize_, threads_, generateId_,
    nullKeys,       \* the keys of threads_ that map to a null unique_ptr
    mtx,            \* owner of taskQueMtx_ between actions: NoOwner or a worker id
    started,        \* start() has been called
    wpc,            \* each worker's position in threadHandler
    wtask,          \* the task a worker holds (local variable task)
    notified,       \* a notify of notEmpty_ is pending for a waiting worker
    dur,            \* seconds since the worker's lastTime, capped at THREAD_IDLE_TIME
    lost,           \* workers that were notified, found the queue empty and waited again
    tstate,         \* each task's submitTask call
    result_,        \* Task::result_
    deqBy,          \* the workers that dequeued each task
    enqSeq,         \* the accepted tasks in the order of their enqueues
    runCount,       \* the number of invocations of each task's run()
    isValid_, resLimit_, any_,   \* each Result: validity, semaphore count, value slot
    posted,         \* setVal has been called on the handle
    alive,          \* the Result object is constructed and not destroyed
    task_,          \* Result::task_, NoTask for a null shared_ptr
    touched,        \* the Result objects a worker read or wrote after their destruction
    gpc, got,       \* each handle's get() call and what it returned
    dpc,            \* the destructor's position
    exitNotified,   \* a notify of exitCond_ is pending for the waiting destructor
    queAtDtor,      \* the tasks on the queue when the destructor started
    regAtDtor,      \* the registry when the destructor started
    waitAtDtor,     \* the workers waiting on notEmpty_ when the destructor started
    crashed         \* the process was ended by a fault

cfgVars == <<poolMode_, taskQueMaxThreshHold_, threadSizeThreshHold_>>
cntVars == <<initThreadSize_, curThreadSize_, threadIdelSize_>>
queVars == <<taskQue_, taskSize_>>
regVars == <<threads_, generateId_, nullKeys>>
wrkVars == <<wpc, wtask, notified, dur, lost>>
tskVars == <<tstate, result_, deqBy, runCount, enqSeq>>
resVars == <<isValid_, resLimit_, any_, posted, alive, task_, touched>>
getVars == <<gpc, got>>
dtrVars == <<dpc, exitNotified, queAtDtor, regAtDtor, waitAtDtor>>
vars == <<cfgVars, cntVars, queVars, regVars, wrkVars, tskVars, resVars, getVars,
          dtrVars, isPoolRunning_, mtx, started, crashed>>

\* ------------------------------------------------------------------ Any
\* An Any holds nothing (default constructed or moved from) or one value with
\* its dynamic type.
EmptyAny == [type |-> "none", data |-> 0]
MakeAny(ty, v) == [type |-> ty, data |-> v]

\* MyTask(begin, end) of main.cpp: task t sums t..2t.
TaskBegin(t) == t
TaskEnd(t) == 2 * t
RECURSIVE SumRange(_, _)
SumRange(i, e) == IF i > e THEN 0 ELSE i + SumRange(i + 1, e)
\* MyTask::run
run(t) == MakeAny("Ulong", SumRange(TaskBegin(t), TaskEnd(t)))

\* ------------------------------------------------------------------ Init
\* The pool after ThreadPool::ThreadPool, with no task and no handle yet.
PoolInit ==
    /\ poolMode_ = MODE_FIXED
    /\ taskQueMaxThreshHold_ = TASK_MAX_THRESHOLD
    /\ threadSizeThreshHold_ = THREAD_MAX_THRESHHOLD
    /\ isPoolRunning_ = FALSE
    /\ initThreadSize_ = 0
    /\ curThreadSize_ = 0
    /\ threadIdelSize_ = 0
    /\ taskQue_ = <<>>
    /\ taskSize_ = 0
    /\ threads_ = {}
    /\ nullKeys = {}
    /\ mtx = NoOwner
    /\ started = FALSE
    /\ wpc = [w \in Workers |-> "none"]
    /\ wtask = [w \in Workers |-> NoTask]
    /\ notified = [w \in Workers |-> FALSE]
    /\ dur = [w \in Workers |-> 0]
    /\ lost = {}
    /\ tstate = [t \in Tasks |-> "new"]
    /\ result_ = [t \in Tasks |-> nullptr]
    /\ deqBy = [t \in Tasks |-> {}]
    /\ enqSeq = <<>>
    /\ runCount = [t \in Tasks |-> 0]
    /\ isValid_ = [h \in Handles |-> FALSE]
    /\ resLimit_ = [h \in Handles |-> 0]
    /\ any_ = [h \in Handles |-> EmptyAny]
    /\ posted = [h \in Handles |-> FALSE]
    /\ alive = [h \in Handles |-> FALSE]
    /\ task_ = [h \in Handles |-> NoTask]
    /\ touched = {}
    /\ gpc = [h \in Handles |-> "none"]
    /\ got = [h \in Handles |-> EmptyAny]
    /\ dpc = "idle"
    /\ exitNotified = FALSE
    /\ queAtDtor = {}
    /\ regAtDtor = {}
    /\ waitAtDtor = {}
    /\ crashed = FALSE

\* The first pool of the process: Thread::generateId_ is still 0
\* (threadpool.cpp:248).
Init == PoolInit /\ generateId_ = 0

\* A pool of a process that has constructed Thread objects before, for
\* another pool or on their own.
InitAnyId == PoolInit /\ generateId_ \in 0..MaxPriorIds

\* ----------------------------------------------------------- the setters
\* The state read the wrong way round.
checkRunningStateNegated == ~isPoolRunning_
\* ThreadPool::checkRunningState
checkRunningState == isPoolRunning_

\* ThreadPool::setPoolMode
setPoolMode(mode) ==
    /\ dpc = "idle"
    /\ poolMode_' = IF checkRunningState THEN poolMode_ ELSE mode
    /\ UNCHANGED <<taskQueMaxThreshHold_, threadSizeThreshHold_, cntVars, queVars,
                   regVars, wrkVars, tskVars, resVars, getVars, dtrVars,
                   isPoolRunning_, mtx, started, crashed>>

\* ThreadPool::setTaskQueMaxThreshHold
setTaskQueMaxThreshHold(threshhold) ==
    /\ dpc = "idle"
    /\ taskQueMaxThreshHold_' =
          IF checkRunningState THEN taskQueMaxThreshHold_ ELSE threshhold
    /\ UNCHANGED <<poolMode_, threadSizeThreshHold_, cntVars, queVars,
                   regVars, wrkVars, tskVars, resVars, getVars, dtrVars,
                   isPoolRunning_, mtx, started, crashed>>

\* ThreadPool::setThreadMaxThreshHold
setThreadMaxThreshHold(threshhold) ==
    /\ dpc = "idle"
    /\ threadSizeThreshHold_' =
          IF ~checkRunningState /\ poolMode_ = MODE_CACHED
          THEN threshhold ELSE threadSizeThreshHold_
    /\ UNCHANGED <<poolMode_, taskQueMaxThreshHold_, cntVars, queVars,
                   regVars, wrkVars, tskVars, resVars, getVars, dtrVars,
                   isPoolRunning_, mtx, started, crashed>>

\* ------------------------------------------------------------------ start
\* What a step with undefined behaviour (a call through a null pointer, an
\* access to a destroyed object) does: it ends the process, or the access
\* goes through as if the object were there and the thread goes on.
Undefined == {"fault", "goes on"}

\* The ids of the Thread objects the first loop of start constructs.
NewIds(n) == generateId_..(generateId_ + n - 1)
\* The keys threads_[i] the second loop of start launches.
LaunchKeys(n) == 0..(n - 1)

\* ThreadPool::start.  The workers it launches find the queue empty, so the
\* order of the launches and of the threadIdelSize_++ between them is not
\* observable and the call is one step.  The second loop launches
\* threads_[i] for i = 0..n-1, and operator[] of the map inserts a null
\* unique_ptr for a key that is not an id of the first loop: calling start()
\* through it is undefined behaviour, with the first such key, 0, at the
\* first launch.  Then either the process ends there, or the call through
\* the null pointer has no effect and the loop goes on.
start(initThreadSize) ==
    /\ ~started
    /\ dpc = "idle"
    /\ started' = TRUE
    /\ isPoolRunning_' = TRUE
    /\ initThreadSize_' = initThreadSize
    /\ curThreadSize_' = initThreadSize
    /\ generateId_' = generateId_ + initThreadSize
    /\ IF LaunchKeys(initThreadSize) \subseteq NewIds(initThreadSize)
       THEN /\ threads_' = threads_ \cup NewIds(initThreadSize)
            /\ wpc' = [w \in Workers |->
                         IF w \in LaunchKeys(initThreadSize) THEN "lock" ELSE wpc[w]]
            /\ threadIdelSize_' = threadIdelSize_ + initThreadSize
            /\ UNCHANGED <<nullKeys, crashed>>
       ELSE \E outcome \in Undefined :
               IF outcome = "fault"
               THEN /\ crashed' = TRUE
                    /\ threads_' = threads_ \cup NewIds(initThreadSize) \cup {0}
                    /\ nullKeys' = nullKeys \cup {0}
                    /\ UNCHANGED <<wpc, threadIdelSize_>>
               ELSE /\ threads_' = threads_ \cup NewIds(initThreadSize)
                                            \cup LaunchKeys(initThreadSize)
                    /\ nullKeys' = nullKeys \cup
                          (LaunchKeys(initThreadSize) \ NewIds(initThreadSize))
                    /\ wpc' = [w \in Workers |->
                                 IF w \in LaunchKeys(initThreadSize)
                                          \cap NewIds(initThreadSize)
                                 THEN "lock" ELSE wpc[w]]
                    /\ threadIdelSize_' = threadIdelSize_ + initThreadSize
                    /\ UNCHANGED crashed
    /\ UNCHANGED <<cfgVars, queVars, wtask, notified, dur, lost, tskVars, resVars,
                   getVars, dtrVars, mtx>>

\* ------------------------------------------------------------- submitTask
\* The workers blocked in notEmpty_.wait or notEmpty_.wait_for.
Waiting(w) == wpc[w] \in {"wait", "twait"}

\* notEmpty_.notify_all(): every worker waiting now has a wake-up pending.
NotifyAll(flags) == [w \in Workers |-> IF Waiting(w) THEN TRUE ELSE flags[w]]

\* The predicate with <= in the place of <.
QueueHasRoomOffByOne == Len(taskQue_) <= taskQueMaxThreshHold_
\* The predicate of notFull_.wait_for (threadpool.cpp:69).
QueueHasRoom == Len(taskQue_) < taskQueMaxThreshHold_

\* The test with >= in the place of >.
NeedNewThreadOffByOne(taskSize) ==
    /\ poolMode_ = MODE_CACHED
    /\ taskSize >= threadIdelSize_
    /\ curThreadSize_ < threadSizeThreshHold_

\* The elastic-scale test (threadpool.cpp:91), read after taskSize_++.
NeedNewThread(taskSize) ==
    /\ poolMode_ = MODE_CACHED
    /\ taskSize > threadIdelSize_
    /\ curThreadSize_ < threadSizeThreshHold_

\* Result::Result(task, isValid): the handle of task t is handle t, and the
\* constructor binds the task to it.
NewResult(t, valid) ==
    /\ alive' = [alive EXCEPT ![t] = TRUE]
    /\ task_' = [task_ EXCEPT ![t] = t]
    /\ isValid_' = [isValid_ EXCEPT ![t] = valid]
    /\ result_' = [result_ EXCEPT ![t] = t]

\* submitTask from the enqueue to the return of a valid handle
\* (threadpool.cpp:83-112), all under taskQueMtx_.
Accept(t) ==
    /\ taskQue_' = Append(taskQue_, t)
    /\ enqSeq' = Append(enqSeq, t)
    /\ taskSize_' = taskSize_ + 1
    /\ notified' = NotifyAll(notified)
    /\ IF NeedNewThread(taskSize_ + 1)
       THEN /\ generateId_ \in Workers
            /\ threads_' = threads_ \cup {generateId_}
            /\ generateId_' = generateId_ + 1
            /\ wpc' = [wpc EXCEPT ![generateId_] = "lock"]
            /\ curThreadSize_' = curThreadSize_ + 1
            /\ threadIdelSize_' = threadIdelSize_ + 1
       ELSE UNCHANGED <<threads_, generateId_, wpc, curThreadSize_, threadIdelSize_>>
    /\ NewResult(t, TRUE)
    /\ tstate' = [tstate EXCEPT ![t] = "accepted"]
    /\ UNCHANGED <<cfgVars, initThreadSize_, nullKeys, wtask, dur, lost, deqBy,
                   runCount, resLimit_, any_, posted, touched, getVars, dtrVars, isPoolRunning_, mtx,
                   started, crashed>>

\* submitTask when the wait ended with the queue still full
\* (threadpool.cpp:70-80).
Reject(t) ==
    /\ NewResult(t, FALSE)
    /\ tstate' = [tstate EXCEPT ![t] = "rejected"]
    /\ UNCHANGED <<cfgVars, cntVars, queVars, regVars, wrkVars, deqBy, runCount,
                   enqSeq, resLimit_, any_, posted, touched, getVars, dtrVars,
                   isPoolRunning_, mtx,
                   started, crashed>>

\* ThreadPool::submitTask, from the lock to the first test of the predicate:
\* the call goes on at once when the queue has room and waits on notFull_
\* otherwise.  Tasks are numbered in the order their calls begin.
submitTask(t) ==
    /\ started
    /\ dpc = "idle"
    /\ tstate[t] = "new"
    /\ \A u \in Tasks : u < t => tstate[u] # "new"
    /\ mtx = NoOwner
    /\ IF QueueHasRoom
       THEN Accept(t)
       ELSE /\ tstate' = [tstate EXCEPT ![t] = "waitFull"]
            /\ UNCHANGED <<cfgVars, cntVars, queVars, regVars, wrkVars, result_,
                           deqBy, runCount, enqSeq, resVars, getVars, dtrVars,
                           isPoolRunning_, mtx, started, crashed>>

\* notFull_.wait_for wakes before the deadline (a notify of a worker that
\* dequeued, or a spurious wake-up) and finds the predicate true.
submitTask_wake(t) ==
    /\ tstate[t] = "waitFull"
    /\ mtx = NoOwner
    /\ QueueHasRoom
    /\ Accept(t)

\* The 1-second deadline of notFull_.wait_for passes: wait_for returns the
\* value of the predicate at that moment.
submitTask_timeout(t) ==
    /\ tstate[t] = "waitFull"
    /\ mtx = NoOwner
    /\ IF QueueHasRoom THEN Accept(t) ELSE Reject(t)

\* ----------------------------------------------------------- threadHandler
Min(a, b) == IF a < b THEN a ELSE b

\* taskQue_.front() and taskQue_.pop()
\* The newest task in the place of the oldest.
FrontNewest(q) == q[Len(q)]
Front(q) == Head(q)
\* Pop as it would be without the call of pop().
PopForgotten(q) == q
Pop(q) == Tail(q)

\* The wake-up flags after worker w stopped waiting and, when notify is true,
\* called notEmpty_.notify_all().
AfterWake(w, notify) ==
    [x \in Workers |->
        IF x = w THEN FALSE
        ELSE IF notify /\ Waiting(x) THEN TRUE ELSE notified[x]]

\* threadpool.cpp:214-228: the worker dequeues the front task and leaves the
\* critical section.
Take(w, d) ==
    LET t == Front(taskQue_) IN
    /\ threadIdelSize_' = threadIdelSize_ - 1
    /\ wtask' = [wtask EXCEPT ![w] = t]
    /\ taskQue_' = Pop(taskQue_)
    /\ taskSize_' = taskSize_ - 1
    /\ deqBy' = [deqBy EXCEPT ![t] = @ \cup {w}]
    /\ notified' = AfterWake(w, Len(taskQue_') > 0)
    /\ wpc' = [wpc EXCEPT ![w] = "run"]
    /\ dur' = [dur EXCEPT ![w] = d]
    /\ UNCHANGED <<cfgVars, initThreadSize_, curThreadSize_, regVars, lost, tstate,
                   result_, runCount, enqSeq, resVars, getVars, dtrVars, isPoolRunning_,
                   mtx, started, crashed>>

\* The exit without the notify.
NotifyExitForgotten == exitNotified
\* exitCond_.notify_all() (threadpool.cpp:171): it wakes the destructor when
\* the destructor is waiting and is lost otherwise.
NotifyExit == IF dpc = "wait" THEN TRUE ELSE exitNotified

\* threadpool.cpp:167-173: the pool is stopping and the queue is empty; the
\* worker leaves the registry and notifies exitCond_, still holding the mutex.
ShutdownExit(w) ==
    /\ threads_' = threads_ \ {w}
    /\ exitNotified' = NotifyExit
    /\ wpc' = [wpc EXCEPT ![w] = "ret_shutdown"]
    /\ mtx' = w
    /\ notified' = AfterWake(w, FALSE)
    /\ dur' = [dur EXCEPT ![w] = 0]
    /\ UNCHANGED <<cfgVars, cntVars, queVars, generateId_, nullKeys, wtask, lost, tskVars,
                   resVars, getVars, dpc, queAtDtor, regAtDtor, waitAtDtor, isPoolRunning_,
                   started, crashed>>

\* threadpool.cpp:175-198: the worker waits on notEmpty_, with the 1-second
\* timeout in the cached mode and without one in the fixed mode.
WaitNotEmpty(w, d, again) ==
    /\ wpc' = [wpc EXCEPT ![w] =
                 IF poolMode_ = MODE_CACHED THEN "twait" ELSE "wait"]
    /\ notified' = AfterWake(w, FALSE)
    /\ dur' = [dur EXCEPT ![w] = d]
    /\ lost' = IF again THEN lost \cup {w} ELSE lost
    /\ UNCHANGED <<cfgVars, cntVars, queVars, regVars, wtask, tskVars, resVars,
                   getVars, dtrVars, isPoolRunning_, mtx, started, crashed>>

\* One pass of the worker through `while (taskQue_.size() == 0)` with the
\* mutex held (threadpool.cpp:164-228).  d is the time since lastTime; again
\* says that the worker comes from a notified wait.
LoopBody(w, d, again) ==
    IF Len(taskQue_) = 0
    THEN IF ~isPoolRunning_
         THEN ShutdownExit(w)
         ELSE WaitNotEmpty(w, d, again)
    ELSE Take(w, d)

\* threadpool.cpp:159: the worker acquires taskQueMtx_ at the top of an
\* iteration of for(;;).
threadHandler_lock(w) ==
    /\ wpc[w] = "lock"
    /\ mtx = NoOwner
    /\ LoopBody(w, dur[w], FALSE)

\* notEmpty_.wait or wait_for returns after a notify (no_timeout) and the
\* worker has the mutex again.
threadHandler_wake(w) ==
    /\ Waiting(w)
    /\ notified[w]
    /\ mtx = NoOwner
    /\ LoopBody(w, dur[w], TRUE)

\* A spurious wake-up of notEmpty_.wait or wait_for.
threadHandler_spurious(w) ==
    /\ Waiting(w)
    /\ ~notified[w]
    /\ mtx = NoOwner
    /\ LoopBody(w, dur[w], FALSE)

\* The test with > in the place of the first >=: the idle time is never enough.
RetireTestNever(d) == d > THREAD_IDLE_TIME /\ curThreadSize_ > initThreadSize_
\* The test with >= in the place of >.
RetireTestOffByOne(d) == d >= THREAD_IDLE_TIME /\ curThreadSize_ >= initThreadSize_
\* The test of threadpool.cpp:182 after a timed-out wait.
RetireTest(d) == d >= THREAD_IDLE_TIME /\ curThreadSize_ > initThreadSize_

\* The retirement without threadIdelSize_--.
IdleRetireKeepsIdle(w) ==
    /\ threads_' = threads_ \ {w}
    /\ curThreadSize_' = curThreadSize_ - 1
    /\ wpc' = [wpc EXCEPT ![w] = "ret_idle"]
    /\ mtx' = w
    /\ notified' = AfterWake(w, FALSE)
    /\ dur' = [dur EXCEPT ![w] = 0]
    /\ UNCHANGED <<cfgVars, initThreadSize_, threadIdelSize_, queVars, generateId_, nullKeys,
                   wtask, lost, tskVars, resVars, getVars, dtrVars, isPoolRunning_,
                   started, crashed>>

\* threadpool.cpp:184-191: the idle worker leaves the registry, still holding
\* the mutex.
IdleRetire(w) ==
    /\ threads_' = threads_ \ {w}
    /\ curThreadSize_' = curThreadSize_ - 1
    /\ threadIdelSize_' = threadIdelSize_ - 1
    /\ wpc' = [wpc EXCEPT ![w] = "ret_idle"]
    /\ mtx' = w
    /\ notified' = AfterWake(w, FALSE)
    /\ dur' = [dur EXCEPT ![w] = 0]
    /\ UNCHANGED <<cfgVars, initThreadSize_, queVars, generateId_, nullKeys, wtask, lost,
                   tskVars, resVars, getVars, dtrVars, isPoolRunning_, started, crashed>>

\* notEmpty_.wait_for returns cv_status::timeout (threadpool.cpp:178-193),
\* whether or not a notify came while the worker was getting the mutex back.
\* At least one more second has passed since lastTime.
threadHandler_timeout(w) ==
    /\ wpc[w] = "twait"
    /\ mtx = NoOwner
    /\ \E d \in Min(dur[w] + 1, THREAD_IDLE_TIME)..THREAD_IDLE_TIME :
          IF RetireTest(d) THEN IdleRetire(w) ELSE LoopBody(w, d, FALSE)

\* The return of threadHandler after an exit: the unique_lock releases the
\* mutex and the thread ends.
threadHandler_return(w) ==
    /\ wpc[w] \in {"ret_shutdown", "ret_idle"}
    /\ mtx = w
    /\ mtx' = NoOwner
    /\ wpc' = [wpc EXCEPT ![w] =
                 IF wpc[w] = "ret_shutdown" THEN "done_shutdown" ELSE "done_idle"]
    /\ UNCHANGED <<cfgVars, cntVars, queVars, regVars, wtask, notified, dur, lost,
                   tskVars, resVars, getVars, dtrVars, isPoolRunning_, started, crashed>>

\* Task::exec up to the call of run() (threadpool.cpp:231-237, 279-285).
Task_exec(w) ==
    /\ wpc[w] = "run"
    /\ IF wtask[w] # NoTask /\ result_[wtask[w]] # nullptr
       THEN /\ runCount' = [runCount EXCEPT ![wtask[w]] = @ + 1]
            /\ wpc' = [wpc EXCEPT ![w] = "setval"]
       ELSE /\ wpc' = [wpc EXCEPT ![w] = "after"]
            /\ UNCHANGED runCount
    /\ UNCHANGED <<cfgVars, cntVars, queVars, regVars, wtask, notified, dur, lost,
                   tstate, result_, deqBy, enqSeq, resVars, getVars, dtrVars,
                   isPoolRunning_, mtx, started, crashed>>

\* Semaphore::isExit_: false from the constructor on, true once ~Semaphore
\* has run (threadpool.h:80-84).
isExit_(h) == ~alive[h]

\* Semaphore::post
post(h) ==
    resLimit_' = IF isExit_(h) THEN resLimit_ ELSE [resLimit_ EXCEPT ![h] = @ + 1]

\* Result::setVal on the handle the task is bound to, with the value run()
\* returned.  Task::result_ is a raw pointer: when the Result it points to has
\* been destroyed, the writes of setVal and the read of isExit_ in post are
\* accesses to a destroyed object.
Result_setVal(w) ==
    /\ wpc[w] = "setval"
    /\ LET h == result_[wtask[w]] IN
         \E outcome \in (IF alive[h] THEN {"goes on"} ELSE Undefined) :
            /\ touched' = IF alive[h] THEN touched ELSE touched \cup {h}
            /\ IF outcome = "fault"
               THEN /\ crashed' = TRUE
                    /\ UNCHANGED <<any_, resLimit_, posted, wpc>>
               ELSE /\ any_' = [any_ EXCEPT ![h] = run(wtask[w])]
                    /\ post(h)
                    /\ posted' = [posted EXCEPT ![h] = TRUE]
                    /\ wpc' = [wpc EXCEPT ![w] = "after"]
                    /\ UNCHANGED crashed
    /\ UNCHANGED <<cfgVars, cntVars, queVars, regVars, wtask, notified, dur, lost,
                   tskVars, isValid_, alive, task_, getVars, dtrVars, isPoolRunning_,
                   mtx, started>>

\* threadpool.cpp:238-239: the worker is idle again and restarts its clock.
threadHandler_after(w) ==
    /\ wpc[w] = "after"
    /\ threadIdelSize_' = threadIdelSize_ + 1
    /\ dur' = [dur EXCEPT ![w] = 0]
    /\ wtask' = [wtask EXCEPT ![w] = NoTask]
    /\ wpc' = [wpc EXCEPT ![w] = "lock"]
    /\ UNCHANGED <<cfgVars, initThreadSize_, curThreadSize_, queVars, regVars,
                   notified, lost, tskVars, resVars, getVars, dtrVars,
                   isPoolRunning_, mtx, started, crashed>>

\* ------------------------------------------------------------ Result::get
\* What get() returns for an invalid handle: Any("").
InvalidAny == MakeAny("cstr", 0)

\* The test without the negation: no handle returns at once.
ReturnsAtOnceNever(h) == isValid_[h] /\ ~isValid_[h]
\* The test of threadpool.cpp:318.
ReturnsAtOnce(h) == ~isValid_[h]

\* Result::get up to sem_.wait() (threadpool.cpp:316-322).
Result_get(h) ==
    /\ gpc[h] = "none"
    /\ alive[h]
    /\ IF ReturnsAtOnce(h)
       THEN /\ gpc' = [gpc EXCEPT ![h] = "returned"]
            /\ got' = [got EXCEPT ![h] = InvalidAny]
       ELSE /\ gpc' = [gpc EXCEPT ![h] = "semwait"]
            /\ UNCHANGED got
    /\ UNCHANGED <<cfgVars, cntVars, queVars, regVars, wrkVars, tskVars, resVars,
                   dtrVars, isPoolRunning_, mtx, started, crashed>>

\* The predicate of Semaphore::wait
HasResource(h) == resLimit_[h] > 0

\* Semaphore::wait returns and get() moves the value out
\* (threadpool.h:86-95, threadpool.cpp:323).
Semaphore_wait(h) ==
    /\ gpc[h] = "semwait"
    /\ HasResource(h)
    /\ resLimit_' = [resLimit_ EXCEPT ![h] = @ - 1]
    /\ got' = [got EXCEPT ![h] = any_[h]]
    /\ any_' = [any_ EXCEPT ![h] = EmptyAny]
    /\ gpc' = [gpc EXCEPT ![h] = "returned"]
    /\ UNCHANGED <<cfgVars, cntVars, queVars, regVars, wrkVars, tskVars, isValid_,
                   posted, alive, task_, touched, dtrVars, isPoolRunning_, mtx, started, crashed>>

\* ------------------------------------------------- moving, dropping Results
\* The Result move-constructed from handle h.
MovedTo(h) == h + MaxTasks

\* Result::Result(Result &&other) with other = handle h, by the user thread
\* that owns it (threadpool.cpp:293-299): task_ and isValid_ are taken from
\* the source, any_ and sem_ are default-constructed, and Task::result_ is
\* not touched.
Result_move(h) ==
    /\ alive[h]
    /\ gpc[h] = "none"
    /\ MovedTo(h) \in Handles
    /\ ~alive[MovedTo(h)]
    /\ alive' = [alive EXCEPT ![MovedTo(h)] = TRUE]
    /\ task_' = [task_ EXCEPT ![MovedTo(h)] = task_[h], ![h] = NoTask]
    /\ isValid_' = [isValid_ EXCEPT ![MovedTo(h)] = isValid_[h], ![h] = FALSE]
    /\ any_' = [any_ EXCEPT ![MovedTo(h)] = EmptyAny]
    /\ resLimit_' = [resLimit_ EXCEPT ![MovedTo(h)] = 0]
    /\ UNCHANGED <<cfgVars, cntVars, queVars, regVars, wrkVars, tskVars, posted,
                   touched, getVars, dtrVars, isPoolRunning_, mtx, started, crashed>>

\* Result::~Result, when the user's handle h goes out of scope
\* (threadpool.h:120, main.cpp:55); ~Semaphore sets isExit_.
Result_destroy(h) ==
    /\ alive[h]
    /\ gpc[h] # "semwait"
    /\ alive' = [alive EXCEPT ![h] = FALSE]
    /\ UNCHANGED <<cfgVars, cntVars, queVars, regVars, wrkVars, tskVars, isValid_,
                   resLimit_, any_, posted, task_, touched, getVars, dtrVars,
                   isPoolRunning_, mtx, started, crashed>>

\* ------------------------------------------------------------ ~ThreadPool
Range(q) == {q[i] : i \in 1..Len(q)}

\* The predicate satisfied already by one remaining worker.
ExitPredOffByOne == Cardinality(threads_) <= 1
\* The predicate of exitCond_.wait (threadpool.cpp:19-20).
ExitPred == Cardinality(threads_) = 0

\* threadpool.cpp:14: isPoolRunning_ = false, before the mutex is taken.  No
\* submitTask call is in progress when the pool is destroyed.
dtor_flag ==
    /\ dpc = "idle"
    /\ \A t \in Tasks : tstate[t] # "waitFull"
    /\ isPoolRunning_' = FALSE
    /\ dpc' = "lock"
    /\ queAtDtor' = Range(taskQue_)
    /\ regAtDtor' = threads_
    /\ waitAtDtor' = {w \in Workers : Waiting(w)}
    /\ UNCHANGED <<cfgVars, cntVars, queVars, regVars, wrkVars, tskVars, resVars,
                   getVars, exitNotified, mtx, started, crashed>>

\* exitCond_.wait(lock, pred): return when the predicate holds, wait otherwise.
ExitWait ==
    /\ dpc' = IF ExitPred THEN "done" ELSE "wait"
    /\ exitNotified' = FALSE

\* threadpool.cpp:17-20: lock, notEmpty_.notify_all(), first test of the
\* predicate of exitCond_.wait.
dtor_lock ==
    /\ dpc = "lock"
    /\ mtx = NoOwner
    /\ notified' = NotifyAll(notified)
    /\ ExitWait
    /\ UNCHANGED <<cfgVars, cntVars, queVars, regVars, wpc, wtask, dur, lost,
                   tskVars, resVars, getVars, queAtDtor, regAtDtor, waitAtDtor,
                   isPoolRunning_, mtx, started, crashed>>

\* exitCond_.wait wakes after a notify of a leaving worker.
dtor_wake ==
    /\ dpc = "wait"
    /\ exitNotified
    /\ mtx = NoOwner
    /\ ExitWait
    /\ UNCHANGED <<cfgVars, cntVars, queVars, regVars, wrkVars, tskVars, resVars,
                   getVars, queAtDtor, regAtDtor, waitAtDtor, isPoolRunning_, mtx, started, crashed>>

\* A spurious wake-up of exitCond_.wait.
dtor_spurious ==
    /\ dpc = "wait"
    /\ ~exitNotified
    /\ mtx = NoOwner
    /\ ExitWait
    /\ UNCHANGED <<cfgVars, cntVars, queVars, regVars, wrkVars, tskVars, resVars,
                   getVars, queAtDtor, regAtDtor, waitAtDtor, isPoolRunning_, mtx, started, crashed>>

\* ------------------------------------------------------- the specification
\* The steps of the pool, its workers and its users, Result::get apart.
PoolNext ==
    \/ \E m \in PoolMode : setPoolMode(m)
    \/ \E n \in 0..MaxQueBound : setTaskQueMaxThreshHold(n)
    \/ \E n \in 0..MaxCeil : setThreadMaxThreshHold(n)
    \/ \E n \in 0..MaxInit : start(n)
    \/ \E t \in Tasks : submitTask(t)
    \/ \E t \in Tasks : submitTask_wake(t)
    \/ \E t \in Tasks : submitTask_timeout(t)
    \/ \E w \in Workers : threadHandler_lock(w)
    \/ \E w \in Workers : threadHandler_wake(w)
    \/ \E w \in Workers : threadHandler_spurious(w)
    \/ \E w \in Workers : threadHandler_timeout(w)
    \/ \E w \in Workers : threadHandler_return(w)
    \/ \E w \in Workers : Task_exec(w)
    \/ \E w \in Workers : Result_setVal(w)
    \/ \E w \in Workers : threadHandler_after(w)
    \/ dtor_flag
    \/ dtor_lock
    \/ dtor_wake
    \/ dtor_spurious

\* The calls of Result::get by the users.
GetNext ==
    \/ \E h \in Handles : Result_get(h)
    \/ \E h \in Handles : Semaphore_wait(h)

Next == PoolNext \/ GetNext

Spec == Init /\ [][Next]_vars

\* What the scheduling guarantees: a thread that can run does run, a timed
\* wait ends at its deadline, a notified wait ends.  A spurious wake-up is
\* never guaranteed, and the user is not obliged to call anything.
Fairness ==
    /\ \A w \in Workers :
          /\ WF_vars(threadHandler_lock(w))
          /\ WF_vars(threadHandler_wake(w))
          /\ WF_vars(threadHandler_timeout(w))
          /\ WF_vars(threadHandler_return(w))
          /\ WF_vars(Task_exec(w))
          /\ WF_vars(Result_setVal(w))
          /\ WF_vars(threadHandler_after(w))
    /\ \A t \in Tasks : WF_vars(submitTask_timeout(t))
    /\ \A h \in Handles : WF_vars(Semaphore_wait(h))
    /\ WF_vars(dtor_lock)
    /\ WF_vars(dtor_wake)

FairSpec == Init /\ [][Next]_vars /\ Fairness

\* The pool without the calls of get, which read and write the handles only.
ShutdownSpec == Init /\ [][PoolNext]_vars /\ Fairness

\* The configuration and the start of a pool whose process may have
\* constructed Thread objects before, its workers and its destructor, with no
\* task submitted.  A process that a fault has ended takes no step.
StartNext ==
    \/ ~crashed /\ \E m \in PoolMode : setPoolMode(m)
    \/ ~crashed /\ \E n \in 0..MaxQueBound : setTaskQueMaxThreshHold(n)
    \/ ~crashed /\ \E n \in 0..MaxCeil : setThreadMaxThreshHold(n)
    \/ ~crashed /\ \E n \in 0..MaxInit : start(n)
    \/ ~crashed /\ \E w \in Workers : threadHandler_lock(w)
    \/ ~crashed /\ \E w \in Workers : threadHandler_wake(w)
    \/ ~crashed /\ \E w \in Workers : threadHandler_spurious(w)
    \/ ~crashed /\ \E w \in Workers : threadHandler_timeout(w)
    \/ ~crashed /\ \E w \in Workers : threadHandler_return(w)
    \/ ~crashed /\ dtor_flag
    \/ ~crashed /\ dtor_lock
    \/ ~crashed /\ dtor_wake
    \/ ~crashed /\ dtor_spurious

StartSpec == InitAnyId /\ [][StartNext]_vars

\* A pool in its default configuration, from its start until its destructor
\* is called, with the users' handling of the Results: get, move construction
\* and destruction at any time.
HandleNext ==
    \/ ~crashed /\ \E n \in 0..MaxInit : start(n)
    \/ ~crashed /\ \E t \in Tasks : submitTask(t)
    \/ ~crashed /\ \E w \in Workers : threadHandler_lock(w)
    \/ ~crashed /\ \E w \in Workers : threadHandler_wake(w)
    \/ ~crashed /\ \E w \in Workers : threadHandler_spurious(w)
    \/ ~crashed /\ \E w \in Workers : Task_exec(w)
    \/ ~crashed /\ \E w \in Workers : Result_setVal(w)
    \/ ~crashed /\ \E w \in Workers : threadHandler_after(w)
    \/ ~crashed /\ \E h \in Handles : Result_get(h)
    \/ ~crashed /\ \E h \in Handles : Semaphore_wait(h)
    \/ ~crashed /\ \E h \in Handles : Result_move(h)
    \/ ~crashed /\ \E h \in Handles : Result_destroy(h)

HandleSpec == Init /\ [][HandleNext]_vars

TypeOK ==
    /\ threadIdelSize_ \in Nat
    /\ curThreadSize_ \in Nat
    /\ taskSize_ \in Nat
    /\ generateId_ \in 0..(MaxInit + MaxTasks)

\* ---------------------------------------------------------------- claims
\* The worker is between the dequeue and the end of Task::exec.
Executing(w) == wpc[w] \in {"run", "setval"}

\* C1: every accepted task is dequeued by at most one worker and its run() is
\* invoked exactly once by that worker: never twice, and once as soon as the
\* worker that dequeued it has gone through Task::exec; a task that was not
\* accepted or is still queued has not run; a worker that waits on notEmpty_
\* holds no task, and no two workers execute the same task.
C1_ExactlyOnce ==
    /\ \A t \in Tasks :
          /\ Cardinality(deqBy[t]) <= 1
          /\ runCount[t] <= 1
          /\ runCount[t] = 1 => deqBy[t] # {}
          /\ \A w \in deqBy[t] :
                \/ wpc[w] = "run" /\ wtask[w] = t /\ runCount[t] = 0
                \/ runCount[t] = 1
          /\ (tstate[t] # "accepted" \/ t \in Range(taskQue_)) =>
                deqBy[t] = {} /\ runCount[t] = 0
    /\ \A w \in Workers : Waiting(w) => wtask[w] = NoTask
    /\ \A w1, w2 \in Workers :
          Executing(w1) /\ Executing(w2) /\ w1 # w2 => wtask[w1] # wtask[w2]

\* C1 witness: one task only was ever submitted, it has run once, and another
\* worker that its enqueue woke found the queue empty and waits again.
C1_Witness ==
    \E t \in Tasks, w \in Workers, l \in lost :
       /\ \A u \in Tasks \ {t} : tstate[u] = "new"
       /\ dpc = "idle"
       /\ deqBy[t] = {w}
       /\ runCount[t] = 1
       /\ l # w
       /\ Waiting(l)

\* C3: the length of the task queue never exceeds taskQueMaxThreshHold_.
C3_QueueBound == Len(taskQue_) <= taskQueMaxThreshHold_

\* C3 witness: the queue is at a bound of at least 1 and a submission was
\* turned away for it.
C3_Witness ==
    /\ taskQueMaxThreshHold_ >= 1
    /\ Len(taskQue_) = taskQueMaxThreshHold_
    /\ \E t \in Tasks : tstate[t] = "rejected"

\* C4: the worker count never exceeds the worker ceiling.
C4_Ceiling == curThreadSize_ <= threadSizeThreshHold_

\* C5: in the cached mode, from start until the destructor begins, neither
\* curThreadSize_ nor the registry falls below initThreadSize_.
C5_AtLeastInit ==
    (poolMode_ = MODE_CACHED /\ started /\ dpc = "idle") =>
       /\ curThreadSize_ >= initThreadSize_
       /\ Cardinality(threads_) >= initThreadSize_

\* C5 witness: two workers have retired for idleness, which brought the
\* count down to the initial size.
C5_Witness ==
    /\ poolMode_ = MODE_CACHED
    /\ dpc = "idle"
    /\ curThreadSize_ = initThreadSize_
    /\ \E w1, w2 \in Workers : w1 # w2 /\ wpc[w1] = "done_idle" /\ wpc[w2] = "done_idle"

\* C6: when the destructor has returned the registry is empty, every worker
\* that was launched has ended and nobody holds the queue mutex.
C6_NoWorkerOutlives ==
    dpc = "done" =>
       /\ threads_ = {}
       /\ \A w \in Workers : wpc[w] \in {"none", "done_shutdown", "done_idle"}
       /\ mtx = NoOwner

\* C6 witness: the destructor has returned from a pool whose workers ran a
\* task and left through the shutdown exit.
C6_Witness ==
    /\ dpc = "done"
    /\ \E w \in Workers : wpc[w] = "done_shutdown"
    /\ \E t \in Tasks : runCount[t] = 1

\* C7: in the fixed mode, once the destructor has set the flag it returns,
\* and by then every launched worker has left through the shutdown exit.
C7_FixedShutdown ==
    (poolMode_ = MODE_FIXED /\ dpc = "lock") ~>
       (dpc = "done" /\ \A w \in Workers : wpc[w] \in {"none", "done_shutdown"})

\* C7 witness: the destructor of a fixed pool has returned; when it started
\* one worker was waiting on notEmpty_, another was not, and a task was still
\* on the queue; the task has run and both workers left through the shutdown
\* exit.
C7_Witness ==
    /\ poolMode_ = MODE_FIXED
    /\ dpc = "done"
    /\ \E w1 \in waitAtDtor, w2 \in regAtDtor \ waitAtDtor :
          wpc[w1] = "done_shutdown" /\ wpc[w2] = "done_shutdown"
    /\ \E t \in queAtDtor : runCount[t] = 1

\* C8: in the cached mode, a destructor that starts with an empty queue and
\* every worker of the registry waiting on notEmpty_ returns.
C8_CachedIdleShutdown ==
    (/\ poolMode_ = MODE_CACHED
     /\ dpc = "lock"
     /\ Len(taskQue_) = 0
     /\ \A w \in threads_ : Waiting(w)) ~> (dpc = "done")

\* C9: when the destructor starts with a task on the queue and a worker in the
\* registry, the queue is empty whenever the registry is, and every task that
\* was on the queue has run when the destructor has returned.
C9_DrainFirst ==
    (dpc # "idle" /\ regAtDtor # {}) =>
       /\ threads_ = {} => Len(taskQue_) = 0
       /\ dpc = "done" => \A t \in queAtDtor : runCount[t] = 1

\* C2: get() on a valid handle returns only after setVal was called on it and
\* returns the value its task's run() produced; and a get() that waits on a
\* valid handle of a started pool with a worker in its registry returns.
C2_GetDelivers ==
    /\ [](\A h \in Tasks :
            (gpc[h] = "returned" /\ isValid_[h]) => (posted[h] /\ got[h] = run(h)))
    /\ \A h \in Tasks :
          (gpc[h] = "semwait" /\ started /\ threads_ # {}) ~> (gpc[h] = "returned")

\* C10: a submitTask call ends with an invalid handle exactly when the queue
\* is at or over its bound at the end of the wait, and then changes neither
\* the queue, taskSize_, the registry nor the counters; a rejected task is
\* never dequeued or run, nothing is posted to its handle, and get() on its
\* handle never waits on the semaphore and returns Any("").
C10_Rejection ==
    /\ [][\A t \in Tasks :
            (tstate[t] # tstate'[t] /\ tstate'[t] \in {"accepted", "rejected"}) =>
               /\ tstate'[t] = "rejected" <=> Len(taskQue_) >= taskQueMaxThreshHold_
               /\ isValid_'[t] <=> tstate'[t] = "accepted"
               /\ tstate'[t] = "rejected" =>
                     UNCHANGED <<taskQue_, taskSize_, threads_, curThreadSize_,
                                 threadIdelSize_>>]_vars
    /\ [](\A t \in Tasks :
            tstate[t] = "rejected" =>
               /\ deqBy[t] = {} /\ runCount[t] = 0
               /\ resLimit_[t] = 0 /\ ~posted[t]
               /\ gpc[t] # "semwait"
               /\ gpc[t] = "returned" => got[t] = InvalidAny)
    /\ [](taskQueMaxThreshHold_ = 0 => \A t \in Tasks : tstate[t] # "accepted")

\* C10 witness: with a bound of at least 1, one task was accepted and one was
\* rejected, and get() on the rejected task's handle has returned.
C10_Witness ==
    /\ taskQueMaxThreshHold_ >= 1
    /\ \E t, u \in Tasks :
          /\ tstate[t] = "accepted"
          /\ tstate[u] = "rejected"
          /\ gpc[u] = "returned"

\* C12: tasks are dequeued in the order of their enqueues: the queue is always
\* the part of the enqueue order that was not dequeued yet, and when a task is
\* dequeued every task enqueued before it has been dequeued already.
C12_Fifo ==
    /\ [](\E k \in 0..Len(enqSeq) :
            /\ taskQue_ = SubSeq(enqSeq, k + 1, Len(enqSeq))
            /\ \A i \in 1..k : deqBy[enqSeq[i]] # {})
    /\ [][\A b \in Tasks :
            deqBy'[b] # deqBy[b] =>
               \A i, j \in 1..Len(enqSeq) :
                  (i < j /\ enqSeq[j] = b) => deqBy[enqSeq[i]] # {}]_vars

\* C12 witness: two tasks were enqueued and both were dequeued, by two
\* workers, the second while the first was still held by its worker.
C12_Witness ==
    /\ Len(enqSeq) = 2
    /\ \E w1, w2 \in Workers :
          /\ w1 # w2
          /\ deqBy[enqSeq[1]] = {w1}
          /\ deqBy[enqSeq[2]] = {w2}
          /\ wpc[w1] = "run" /\ wtask[w1] = enqSeq[1]
          /\ wpc[w2] = "run" /\ wtask[w2] = enqSeq[2]

\* C14: once start() has been called, no step changes the mode, the queue
\* bound or the worker ceiling: a call of a setter after start() changes
\* nothing at all (it is a step that leaves every variable as it was).
C14_LateSetters ==
    [][started =>
          UNCHANGED <<poolMode_, taskQueMaxThreshHold_, threadSizeThreshHold_>>]_vars

\* C14 witness: a started pool, a worker of it executing a task, with the three
\* settings changed before start(); each setter can be called here with a value
\* other than the current one.
C14_Witness ==
    /\ started /\ dpc = "idle"
    /\ poolMode_ = MODE_CACHED
    /\ taskQueMaxThreshHold_ = 1
    /\ threadSizeThreshHold_ = 2
    /\ \E w \in Workers : wpc[w] = "run"
    /\ ENABLED setPoolMode(MODE_FIXED)
    /\ ENABLED setTaskQueMaxThreshHold(0)
    /\ ENABLED setThreadMaxThreshHold(1)

\* C15: in the cached mode with a ceiling of at least the initial size, as
\* long as no task has completed and no worker has retired, the worker count
\* (and the size of the registry) after N accepted submissions is
\* min(max(initThreadSize_, N), threadSizeThreshHold_), whatever the workers
\* dequeued in between; and once the pool is started a step adds at most one
\* worker, and none when the count is at the ceiling.
C15_ScaleUp ==
    /\ []((/\ poolMode_ = MODE_CACHED
            /\ started
            /\ threadSizeThreshHold_ >= initThreadSize_
            /\ \A t \in Tasks : ~posted[t]
            /\ \A w \in Workers : wpc[w] \notin {"ret_idle", "done_idle"})
           => LET N == Len(enqSeq)
                  wanted == IF N > initThreadSize_ THEN N ELSE initThreadSize_
              IN /\ curThreadSize_ = Min(wanted, threadSizeThreshHold_)
                 /\ dpc = "idle" => Cardinality(threads_) = curThreadSize_)
    /\ [][started =>
            /\ curThreadSize_' <= curThreadSize_ + 1
            /\ curThreadSize_ >= threadSizeThreshHold_ =>
                  curThreadSize_' <= curThreadSize_]_vars

\* C15 witness: a cached pool started with 1 worker under a ceiling of 2; two
\* tasks were accepted, the first was dequeued before the second was
\* submitted or after, none has completed, and the pool has 2 workers.
C15_Witness ==
    /\ poolMode_ = MODE_CACHED
    /\ initThreadSize_ = 1
    /\ threadSizeThreshHold_ = 2
    /\ Len(enqSeq) = 2
    /\ curThreadSize_ = 2
    /\ \A t \in Tasks : ~posted[t]
    /\ \E w \in Workers : wpc[w] = "run" /\ wtask[w] = enqSeq[1]
    /\ taskQue_ = <<enqSeq[2]>>

\* C17: a cached-mode worker whose timed wait on notEmpty_ ends when
\* isPoolRunning_ is already false never leaves through the idle-retire exit,
\* and with an empty queue it leaves through the shutdown exit.
C17_ShutdownFirst ==
    [][\A w \in Workers :
          (~isPoolRunning_ /\ wpc[w] = "twait" /\ wpc'[w] # "twait") =>
             /\ wpc'[w] # "ret_idle"
             /\ Len(taskQue_) = 0 => wpc'[w] = "ret_shutdown"]_vars

\* C19: once the pool is started, threadIdelSize_ never exceeds
\* curThreadSize_ and never goes below zero (a value below zero here is the
\* wrapped value of the unsigned counter); until the destructor begins it is
\* the worker count less the workers that hold a task.
C19_IdleAtMostCount ==
    started =>
       /\ threadIdelSize_ >= 0
       /\ threadIdelSize_ <= curThreadSize_
       /\ dpc = "idle" =>
             threadIdelSize_ =
                curThreadSize_ - Cardinality({w \in threads_ : wtask[w] # NoTask})

\* C19 witness: a pool in which a worker was spawned at a submission, tasks
\* were dequeued, one has completed, a worker has retired for idleness and
\* another holds a task, so that the idle counter is below the count.
C19_Witness ==
    /\ started
    /\ generateId_ > initThreadSize_
    /\ \E t \in Tasks : posted[t]
    /\ \E w \in Workers : wpc[w] = "done_idle"
    /\ \E w \in Workers : wpc[w] = "run"
    /\ threadIdelSize_ < curThreadSize_

\* C20: whenever nobody holds taskQueMtx_, taskSize_ is the length of the
\* task queue, and it is the number of enqueues less the number of dequeues.
C20_TaskSizeIsLength ==
    mtx = NoOwner =>
       /\ taskSize_ = Len(taskQue_)
       /\ taskSize_ = Len(enqSeq) - Cardinality({t \in Tasks : deqBy[t] # {}})

\* C20 witness: after two enqueues and one dequeue one task is on the queue
\* and the counter is 1.
C20_Witness ==
    /\ mtx = NoOwner
    /\ Len(enqSeq) = 2
    /\ \E t \in Tasks : deqBy[t] # {}
    /\ Len(taskQue_) = 1
    /\ taskSize_ = 1

\* The tasks whose submitTask call has begun.
Submitted == {t \in Tasks : tstate[t] # "new"}
\* Every submitted task was rejected or has completed.
AllCompleted ==
    \A t \in Submitted :
       tstate[t] = "rejected" \/ (tstate[t] = "accepted" /\ posted[t])

\* C16: in the cached mode, when every submitted task has completed, then,
\* unless another task is submitted (its call makes AllCompleted false) or the
\* pool is destroyed, the worker count comes down to initThreadSize_; and once
\* there it stays there until another task is submitted.
C16_DecayToInit ==
    /\ (poolMode_ = MODE_CACHED /\ started /\ dpc = "idle" /\ AllCompleted)
          ~> (curThreadSize_ = initThreadSize_ \/ dpc # "idle" \/ ~AllCompleted)
    /\ [][(/\ poolMode_ = MODE_CACHED /\ started /\ dpc = "idle"
            /\ AllCompleted
            /\ curThreadSize_ = initThreadSize_
            /\ UNCHANGED tstate)
           => curThreadSize_' = initThreadSize_]_vars

\* C16 witness: a cached pool started with no worker grew to two workers for
\* two tasks; both tasks have completed, both workers have retired after
\* their idle time and the count is back at the initial size.
C16_Witness ==
    /\ poolMode_ = MODE_CACHED /\ started /\ dpc = "idle"
    /\ Submitted = Tasks
    /\ \A t \in Tasks : posted[t]
    /\ Cardinality({w \in Workers : wpc[w] = "done_idle"}) = 2
    /\ curThreadSize_ = initThreadSize_
    /\ threads_ = {}

\* Task t's run() has returned and its Task::exec is over.
Completed(t) ==
    /\ runCount[t] = 1
    /\ \A w \in Workers : ~(Executing(w) /\ wtask[w] = t)

\* C11: after a Result is move-constructed from a handle, the source is
\* invalid, and a valid destination receives what the task produces: once the
\* task has completed, either the destination's semaphore has a resource and
\* its value slot holds the value of the task's run(), or get() on the
\* destination has returned that value.
C11_MoveTransfers ==
    \A h \in Handles :
       (MovedTo(h) \in Handles /\ alive[MovedTo(h)]) =>
          LET d == MovedTo(h)
              t == task_[d]
          IN /\ ~isValid_[h]
             /\ (isValid_[d] /\ t # NoTask /\ Completed(t)) =>
                   IF gpc[d] = "returned"
                   THEN got[d] = run(t)
                   ELSE HasResource(d) /\ any_[d] = run(t)

\* C18: no worker reads or writes a Result after its destruction.
C18_NoUseAfterDestroy == touched = {}

\* C13: every call of start(n) completes, and when it has completed the pool
\* is running, the registry holds exactly n workers, all of them Thread
\* objects that were launched, and the worker count, the initial worker count
\* and the idle counter are n.
C13_StartPost ==
    [][(~started /\ started') =>
          /\ ~crashed'
          /\ isPoolRunning_'
          /\ Cardinality(threads_') = initThreadSize_'
          /\ nullKeys' = {}
          /\ \A w \in threads_' : wpc'[w] = "lock"
          /\ curThreadSize_' = initThreadSize_'
          /\ threadIdelSize_' = initThreadSize_']_vars

====
